---- MODULE Spec2Model ----
(***************************************************************************)
(* Verification model of the EET -> Shopify catalog reconciliation job.    *)
(*                                                                         *)
(*   SpecFilter  : EETProductFilter.filterProducts over bounded rules and  *)
(*                 record lists (src/module/csvParseAndFilter.js).         *)
(*   SpecGraphQL : ShopifyClient.runGraphQL over bounded responses.        *)
(*   Spec        : one run of main() (src/index.js) over bounded remote    *)
(*                 catalogs and feeds.                                     *)
(*   SpecLive    : one run of main() over bounded vendor price/stock data. *)
(*   SpecPlan    : STEP 4 of main() alone, over larger feeds and catalogs. *)
(*   SpecFaults  : one run of main() with failing responses of the store.  *)
(*   SpecParse   : EETProductFilter.parseCSV over bounded CSV files.        *)
(*   SpecVendor  : EETClient.getAllProductsPriceAndStock over bounded feeds *)
(*                 and batch sizes.                                        *)
(*   SpecPages   : ShopifyClient.getAllProducts over bounded catalogs.      *)
(*   SpecSched   : scheduleProcess, runs of main() 12 hours apart.          *)
(*                                                                         *)
(* Strings are sequences of character codes, so that toLowerCase is        *)
(* computed rather than assumed.                                           *)
(***************************************************************************)
EXTENDS Integers, Sequences, FiniteSets, TLC

\* ------------------------------------------------------------------ bounds
MaxRecords == 2
MaxLimit == 2
MaxFeed == 2
MaxProducts == 2
MaxPlanFeed == 3
MaxPlanProducts == 3
MaxFaults == 1
MaxRawLen == 3
MaxCsvRows == 3
MaxItems == 4
MaxBatch == 3
MaxCatalog == 4
MaxReruns == 1

\* ------------------------------------------------------------- strings
\* String.prototype.toLowerCase on ASCII: 'A'..'Z' (65..90) map to 'a'..'z'.
toLowerCase(s) == [i \in DOMAIN s |-> IF s[i] \in 65..90 THEN s[i] + 32 ELSE s[i]]

\* Array.prototype.map(x => x.toLowerCase()) followed by includes(): only
\* membership is observed, so a configured list is modelled by its set.
LowerAll(list) == {toLowerCase(x) : x \in list}

\* Brands and SKUs of feed rows ("A", "a", "B" / "X", "x", "Y").
RecordBrands == {<<65>>, <<97>>, <<66>>}
RecordSkus == {<<88>>, <<120>>, <<89>>}
\* Entries a product-filter.json may list ("A", "b" / "X", "y").
ConfigBrands == {<<65>>, <<98>>}
ConfigSkus == {<<88>>, <<121>>}

FeedRows == [varenr : RecordSkus, maerke_navn : RecordBrands]

SeqsUpTo(S, n) == UNION {[1..k -> S] : k \in 0..n}

FilterConfigs ==
    [include : [brand : SUBSET ConfigBrands, sku : SUBSET ConfigSkus],
     exclude : [brand : SUBSET ConfigBrands, sku : SUBSET ConfigSkus],
     include_products_limit : 0..MaxLimit]

VARIABLES
    pc,            \* position of the modelled flow
    filterConfig,  \* EETProductFilter.filterConfig
    products,      \* the parsed rows handed to filterProducts
    afterInclude,  \* filteredProducts after the include block
    afterExclude,  \* filteredProducts after both exclude blocks
    filtered,      \* the value filterProducts returns (jsonData.products)
    row,           \* the raw CSV row handed to cleanProductData
    cleaned,       \* the value cleanProductData returns
    csvFile,       \* parseCSV: the rows of the file, in file order
    csvPos,        \* parseCSV: how many rows the 'data' handler has seen
    isLoggedIn,    \* EETClient.isLoggedIn()
    batchSize,     \* the batchSize argument of getAllProductsPriceAndStock
                   \* (SpecVendor) or of getAllProducts (SpecPages)
    batchNumber,   \* getAllProductsPriceAndStock: batches processed so far
    eetRequests,   \* the POST /product requests sent, with their responses
    allProducts,   \* the local allProducts of either function, then its result
    cursor,        \* getAllProducts: cursor (0 is null, k the cursor of node k)
    hasNextPage,   \* getAllProducts: hasNextPage
    pageRequests,  \* the getProducts calls made, with their responses
    scheduledRuns, \* scheduleProcess: the setTimeout(runProcess, 12 h) calls made
    gqlResponse,   \* runGraphQL: the HTTP response under inspection
    gqlResult,     \* runGraphQL: what the call did
    remote,        \* the store's catalog, indexed by product id
    shopifyProducts,       \* main: the snapshot of STEP 1
    unregisteredProducts,  \* main: STEP 4, feed rows without a remote match
    registeredProducts,    \* main: STEP 4, feed rows with their remote match
    orphans,       \* makeOrphanedProductsDraft: shopifyProductsNotInEET
    vendor,        \* the vendor's price/stock data, by SKU
    eetPriceAndStock,      \* main: the vendor items of STEP 7
    liveProducts,  \* main: the inner shopifyProducts of STEP 7 (line 308)
    i,             \* index of the running loop
    calls,         \* the mutations sent to the store, in order
    counts,        \* successCount / errorCount of the three loops
    faultsLeft,    \* failing remote responses the environment may still give
    exitCode       \* "none" while running, then "0" or "1"

filterVars == <<filterConfig, products, afterInclude, afterExclude, filtered,
                row, cleaned, csvFile, csvPos>>
gqlVars == <<gqlResponse, gqlResult>>
runVars == <<remote, shopifyProducts, unregisteredProducts, registeredProducts,
             orphans, vendor, eetPriceAndStock, liveProducts, i, calls, counts,
             faultsLeft, exitCode>>
\* The components called by the run that are modelled on their own: the vendor
\* client's chunked query and the store client's paginated fetch; and the
\* scheduler around the run.
ioVars == <<isLoggedIn, batchSize, batchNumber, eetRequests, allProducts,
            cursor, hasNextPage, pageRequests, scheduledRuns>>
vars == <<pc, filterVars, gqlVars, ioVars, runVars>>

\* ------------------------------------------------------- filterProducts
\* An include block without the guard on empty lists: with nothing listed no
\* row matches.
IncludePassUnguarded(cfg, rows) ==
    LET keep(p) == \/ toLowerCase(p.maerke_navn) \in LowerAll(cfg.include.brand)
                   \/ toLowerCase(p.varenr) \in LowerAll(cfg.include.sku)
    IN  SelectSeq(rows, keep)

\* csvParseAndFilter.js 144-161: the include block.
IncludePass(cfg, rows) ==
    LET includeBrands == LowerAll(cfg.include.brand)
        includeSkus == LowerAll(cfg.include.sku)
        brandMatch(p) == includeBrands = {} \/ toLowerCase(p.maerke_navn) \in includeBrands
        skuMatch(p) == includeSkus = {} \/ toLowerCase(p.varenr) \in includeSkus
        keep(p) == brandMatch(p) \/ skuMatch(p)
    IN  IF includeBrands # {} \/ includeSkus # {}
        THEN SelectSeq(rows, keep)
        ELSE rows

\* The exclude block as the README documents it: one pass that drops a row
\* only when brand and SKU both match.
ExcludePassAnd(cfg, rows) ==
    LET excludeBrands == LowerAll(cfg.exclude.brand)
        excludeSkus == LowerAll(cfg.exclude.sku)
        keep(p) == ~(toLowerCase(p.maerke_navn) \in excludeBrands
                     /\ toLowerCase(p.varenr) \in excludeSkus)
    IN  SelectSeq(rows, keep)

\* Removal in place while iterating forward: after a row is spliced out the
\* row that follows it is skipped.
RECURSIVE SpliceWhileIterating(_, _, _)
SpliceWhileIterating(rows, brands, skus) ==
    IF rows = <<>> THEN <<>>
    ELSE IF toLowerCase(Head(rows).maerke_navn) \in brands
            \/ toLowerCase(Head(rows).varenr) \in skus
         THEN IF Len(rows) = 1 THEN <<>>
              ELSE <<rows[2]>> \o SpliceWhileIterating(Tail(Tail(rows)), brands, skus)
         ELSE <<Head(rows)>> \o SpliceWhileIterating(Tail(rows), brands, skus)

ExcludePassSplicing(cfg, rows) ==
    SpliceWhileIterating(rows, LowerAll(cfg.exclude.brand), LowerAll(cfg.exclude.sku))

\* csvParseAndFilter.js 164-180: two sequential exclude filters.
ExcludePass(cfg, rows) ==
    LET excludeBrands == LowerAll(cfg.exclude.brand)
        excludeSkus == LowerAll(cfg.exclude.sku)
        keepBrand(p) == toLowerCase(p.maerke_navn) \notin excludeBrands
        keepSku(p) == toLowerCase(p.varenr) \notin excludeSkus
        byBrand == IF excludeBrands # {} THEN SelectSeq(rows, keepBrand) ELSE rows
    IN  IF excludeSkus # {} THEN SelectSeq(byBrand, keepSku) ELSE byBrand

\* A limit that keeps the last `limit` rows (slice(-limit)).
LimitPassLast(cfg, rows) ==
    LET limit == cfg.include_products_limit
    IN  IF limit > 0 /\ Len(rows) > limit
        THEN SubSeq(rows, Len(rows) - limit + 1, Len(rows))
        ELSE rows

\* csvParseAndFilter.js 183-189: slice(0, limit).
LimitPass(cfg, rows) ==
    LET limit == cfg.include_products_limit
    IN  IF limit > 0 /\ Len(rows) > limit THEN SubSeq(rows, 1, limit) ELSE rows

filterProducts(cfg, rows) == LimitPass(cfg, ExcludePass(cfg, IncludePass(cfg, rows)))

\* ----------------------------------------------------------- runGraphQL
\* part_002 640: the budget below which runGraphQL wants to wait.
ReservedThreshold == 1000

\* An HTTP response of the store: ok is response.ok, errors is data.errors,
\* userErrors the mutation payload's userErrors, cost is data.extensions.cost.
Response(ok, errors, userErrors, cur, max, rate) ==
    [ok |-> ok, errors |-> errors, userErrors |-> userErrors,
     cost |-> [currentlyAvailable |-> cur, maximumAvailable |-> max, restoreRate |-> rate]]

\* The store carries out a mutation it answers without transport error,
\* top-level errors or userErrors.
Applied(resp) == resp.ok /\ ~resp.errors /\ ~resp.userErrors

\* part_002 614-665.  `new Promise(setTimeout(resolve, ...))` evaluates the
\* undeclared identifier resolve: a ReferenceError inside the try block, which
\* the catch logs and rethrows; no timer is started.
runGraphQL(resp) ==
    LET cost == resp.cost
    IN  IF ~resp.ok THEN [threw |-> TRUE, waitMs |-> 0]
        ELSE IF cost.currentlyAvailable < ReservedThreshold
             THEN [threw |-> TRUE, waitMs |-> 0]
        ELSE IF resp.errors THEN [threw |-> TRUE, waitMs |-> 0]
        ELSE [threw |-> FALSE, waitMs |-> 0]

\* The responses runGraphQL is examined on.
BudgetLevels == {0, 500, 999, 1000, 1500, 2000}
BudgetMaxima == {1000, 2000}
RestoreRates == {50, 100}
GqlResponses ==
    {Response(ok, errors, FALSE, cur, max, rate) :
        ok \in BOOLEAN, errors \in BOOLEAN,
        cur \in BudgetLevels, max \in BudgetMaxima, rate \in RestoreRates}

NoResponse == Response(FALSE, FALSE, FALSE, 0, 0, 0)
NoResult == [threw |-> FALSE, waitMs |-> 0]

GqlIdle ==
    /\ gqlResponse = NoResponse
    /\ gqlResult = NoResult

\* The responses the store gives during a run: a normal one, one with a low
\* budget, a transport failure, a top-level error, a userErrors rejection.
RespOk == Response(TRUE, FALSE, FALSE, 1900, 2000, 100)
RespLowBudget == Response(TRUE, FALSE, FALSE, 900, 2000, 100)
RespHttpError == Response(FALSE, FALSE, FALSE, 0, 0, 0)
RespGraphQLError == Response(TRUE, TRUE, FALSE, 1900, 2000, 100)
RespUserErrors == Response(TRUE, FALSE, TRUE, 1900, 2000, 100)
FaultyResponses == {RespLowBudget, RespHttpError, RespGraphQLError, RespUserErrors}

\* The responses a call can get while `left` faults remain.
Responses(left) == IF left > 0 THEN {RespOk} \cup FaultyResponses ELSE {RespOk}
Faults(resps) == Cardinality({k \in DOMAIN resps : resps[k] # RespOk})
\* The responses to n requests in a row while `left` faults remain.
ResponseSeqs(n, left) ==
    IF left = 0 THEN {[k \in 1..n |-> RespOk]}
    ELSE {rs \in [1..n -> Responses(left)] : Faults(rs) <= left}

\* ------------------------------------------------------- catalog helpers
\* findProductBySKU's null.
NoProduct == [id |-> 0, status |-> "NONE", skus |-> <<>>, price |-> 0, qty |-> 0]

\* getProducts 673-737: the node of a product as a page returns it; skus are
\* variants.nodes[k].inventoryItem.sku, price and qty those of each variant
\* (one value per product is kept: updates only ever touch nodes[0]).
Node(id, p) == [id |-> id, status |-> p.status, skus |-> p.skus,
                price |-> p.price, qty |-> p.qty]

\* getAllProducts 754-802 on a store that answers every page.
AllNodes(store) == [k \in DOMAIN store |-> Node(k, store[k])]

Min(S) == CHOOSE x \in S : \A y \in S : x <= y

\* A lookup that reads only the first variant of each product.
findProductByFirstVariantSKU(sku, existingProducts) ==
    LET hits == {k \in DOMAIN existingProducts :
                    /\ existingProducts[k].skus # <<>>
                    /\ existingProducts[k].skus[1] = sku}
    IN  IF hits = {} THEN NoProduct ELSE existingProducts[Min(hits)]

\* part_002 566-606: the first product with a variant whose
\* inventoryItem.sku === sku.
findProductBySKU(sku, existingProducts) ==
    LET hits == {k \in DOMAIN existingProducts :
                    \E v \in DOMAIN existingProducts[k].skus :
                        existingProducts[k].skus[v] = sku}
    IN  IF hits = {} THEN NoProduct ELSE existingProducts[Min(hits)]

\* part_002 416-560: the fields of the mapped product the run reads.  Feed
\* prices carry two decimals, so Math.round(pris * 100) / 100 keeps them.
mapEETToShopifyProduct(eetProduct) ==
    [sku |-> eetProduct.varenr, vendor |-> eetProduct.maerke_navn,
     price |-> eetProduct.pris, inventoryQuantity |-> eetProduct.lagerbeholdning]

\* index.js 176-191 as a fold over jsonData.products.
RECURSIVE Compare(_, _, _, _)
Compare(rows, snapshot, unreg, reg) ==
    IF rows = <<>> THEN [unregistered |-> unreg, registered |-> reg]
    ELSE LET mappedProduct == mapEETToShopifyProduct(Head(rows))
             existingProduct == findProductBySKU(mappedProduct.sku, snapshot)
         IN  IF existingProduct # NoProduct
             THEN Compare(Tail(rows), snapshot, unreg,
                          Append(reg, [mappedProduct |-> mappedProduct,
                                       shopifyProduct |-> existingProduct]))
             ELSE Compare(Tail(rows), snapshot, Append(unreg, mappedProduct), reg)

\* part_002 1178-1191: the filter callback of shopifyProductsNotInEET.
IsOrphan(p, eetSkus) ==
    /\ p.status # "DRAFT"
    /\ \E v \in DOMAIN p.skus : p.skus[v] # <<>> /\ p.skus[v] \notin eetSkus

\* part_002 1174-1191.
OrphanedProducts(snapshot, eetProducts) ==
    LET eetSkus == {eetProducts[k].varenr : k \in DOMAIN eetProducts}
        notInEET(p) == IsOrphan(p, eetSkus)
    IN  SelectSeq(snapshot, notInEET)

\* ------------------------------------------------------ store mutations
\* One mutation request sent to the store.  fault records that the response
\* was not the normal one; applied that the store carried the mutation out.
Call(phase, item, op, pid, status, value, sku, resp) ==
    [phase |-> phase, item |-> item, op |-> op, pid |-> pid, status |-> status,
     value |-> value, sku |-> sku, applied |-> Applied(resp), fault |-> resp # RespOk]

\* The store after one request.  productCreate makes an ACTIVE product with
\* one variant that has no SKU yet (part_002 833-876); the follow-up
\* productVariantsBulkUpdate sets SKU and price, inventoryAdjustQuantities
\* adds a delta, productUpdate sets the status.  Metafields and tags are not
\* part of the modelled catalog.
ApplyCall(store, c) ==
    IF ~c.applied THEN store
    ELSE IF c.op = "create"
         THEN Append(store, [status |-> "ACTIVE", skus |-> <<<<>>>>, price |-> 0, qty |-> 0])
    ELSE IF c.op = "variant"
         THEN [store EXCEPT ![c.pid].skus = <<c.sku>>, ![c.pid].price = c.value]
    ELSE IF c.op = "inventory"
         THEN [store EXCEPT ![c.pid].qty = @ + c.value]
    ELSE IF c.op = "price"
         THEN [store EXCEPT ![c.pid].price = c.value]
    ELSE IF c.op = "status"
         THEN [store EXCEPT ![c.pid].status = c.status]
    ELSE store

RECURSIVE ApplyCalls(_, _)
ApplyCalls(store, cs) ==
    IF cs = <<>> THEN store ELSE ApplyCalls(ApplyCall(store, Head(cs)), Tail(cs))

FaultsIn(cs) == Cardinality({k \in DOMAIN cs : cs[k].fault})

\* A call reports success to its caller when runGraphQL returns and the
\* payload has no userErrors.
Succeeded(resp) == ~runGraphQL(resp).threw /\ ~resp.userErrors

\* Amounts of money are integers of hundredths.  (x / den).toFixed(2) of an
\* amount x, rounded half up.
DivToFixed2(x, den) == (2 * x + den) \div (2 * den)

\* createProduct with a catch that logs a failed productCreate and returns.
createProductSwallowing(item, productData, newId, rs) ==
    LET c1 == Call("create", item, "create", newId, "ACTIVE", 0, <<>>, rs[1])
        c2 == Call("create", item, "variant", newId, "", productData.price,
                   productData.sku, rs[2])
        c3 == Call("create", item, "inventory", newId, "",
                   productData.inventoryQuantity, <<>>, rs[3])
    IN  IF ~Succeeded(rs[1])
        THEN [calls |-> <<c1>>, threw |-> FALSE]
        ELSE [calls |-> <<c1, c2, c3>>, threw |-> FALSE]

\* createProduct whose variant update is not wrapped in a try/catch of its own:
\* a failed update ends the call with an error.
createProductAbortingOnVariant(item, productData, newId, rs) ==
    LET c1 == Call("create", item, "create", newId, "ACTIVE", 0, <<>>, rs[1])
        c2 == Call("create", item, "variant", newId, "", productData.price,
                   productData.sku, rs[2])
        c3 == Call("create", item, "inventory", newId, "",
                   productData.inventoryQuantity, <<>>, rs[3])
    IN  IF ~Succeeded(rs[1])
        THEN [calls |-> <<c1>>, threw |-> TRUE]
        ELSE IF ~Succeeded(rs[2])
        THEN [calls |-> <<c1, c2>>, threw |-> TRUE]
        ELSE [calls |-> <<c1, c2, c3>>, threw |-> FALSE]

\* part_002 809-1067: createProduct(productData) on a store whose next
\* product id is newId; rs are the responses to the three requests.
createProduct(item, productData, newId, rs) ==
    LET c1 == Call("create", item, "create", newId, "ACTIVE", 0, <<>>, rs[1])
        c2 == Call("create", item, "variant", newId, "", productData.price,
                   productData.sku, rs[2])
        c3 == Call("create", item, "inventory", newId, "",
                   productData.inventoryQuantity, <<>>, rs[3])
    IN  IF ~Succeeded(rs[1])
        THEN [calls |-> <<c1>>, threw |-> TRUE]
        ELSE [calls |-> <<c1, c2, c3>>, threw |-> FALSE]

\* part_002 1074-1160: makeProductDraft(product).
makeProductDraft(phase, item, product, resp) ==
    [calls |-> <<Call(phase, item, "status", product.id, "DRAFT", 0, <<>>, resp)>>,
     success |-> Succeeded(resp)]

\* part_002 1429-1556: updateProductPrice(sku, newPrice, product).
\* variant.price is a string of the page, newPrice a number: !== always holds.
updateProductPrice(item, sku, newPrice, product, resp) ==
    IF product = NoProduct \/ product.skus = <<>>
    THEN [calls |-> <<>>, success |-> FALSE]
    ELSE LET priceInDecimal == DivToFixed2(newPrice, 100)
         IN  [calls |-> <<Call("live", item, "price", product.id, "",
                               priceInDecimal, sku, resp)>>,
              success |-> Succeeded(resp)]

\* updateProductQuantity sending the new quantity itself as the adjustment.
updateProductQuantityAbsolute(item, sku, newQuantity, product, resp) ==
    IF product = NoProduct \/ product.skus = <<>>
    THEN [calls |-> <<>>, success |-> FALSE]
    ELSE IF product.qty # newQuantity
    THEN [calls |-> <<Call("live", item, "inventory", product.id, "",
                           newQuantity, sku, resp)>>,
          success |-> Succeeded(resp)]
    ELSE [calls |-> <<>>, success |-> FALSE]

\* part_002 1273-1420: updateProductQuantity(sku, newQuantity, product); the
\* first variant is taken to have an inventory level.
updateProductQuantity(item, sku, newQuantity, product, resp) ==
    IF product = NoProduct \/ product.skus = <<>>
    THEN [calls |-> <<>>, success |-> FALSE]
    ELSE IF product.qty # newQuantity
    THEN [calls |-> <<Call("live", item, "inventory", product.id, "",
                           newQuantity - product.qty, sku, resp)>>,
          success |-> Succeeded(resp)]
    ELSE [calls |-> <<>>, success |-> FALSE]

\* part_002 1561-1621: updateStockObject(sku, stockObject, product).
updateStockObject(item, sku, product, resp) ==
    IF product = NoProduct
    THEN [calls |-> <<>>, success |-> FALSE]
    ELSE [calls |-> <<Call("live", item, "stockObject", product.id, "", 0, sku, resp)>>,
          success |-> Succeeded(resp)]

\* makeProductActive(product): the counterpart of makeProductDraft; on a
\* null product it dereferences product.variants and throws.
makeProductActive(item, product, resp) ==
    IF product = NoProduct
    THEN [calls |-> <<>>, threw |-> TRUE]
    ELSE [calls |-> <<Call("live", item, "status", product.id, "ACTIVE", 0, <<>>, resp)>>,
          threw |-> FALSE]

\* addProductTags(product.id, [brandName]).
addProductTags(item, product, brandName, resp) ==
    <<Call("live", item, "tags", product.id, "", 0, brandName, resp)>>

\* --------------------------------------------------------- vendor items
Max(S) == CHOOSE x \in S : \A y \in S : x >= y

\* index.js 344-355: the forEach assigns, so the last entry of a type wins.
LastQuantity(stockObject, typeName) ==
    LET at == {k \in DOMAIN stockObject : stockObject[k].StockTypeName = typeName}
    IN  IF at = {} THEN 0 ELSE stockObject[Max(at)].Quantity

StockEntry(typeName, quantity) == [StockTypeName |-> typeName, Quantity |-> quantity]
NoPrice == [present |-> FALSE, Price |-> 0, VatAmount |-> 0]
PriceOf(price, vat) == [present |-> TRUE, Price |-> price, VatAmount |-> vat]
NoStock == [present |-> FALSE, list |-> <<>>]
StockOf(list) == [present |-> TRUE, list |-> list]

\* index.js 316-317: jsonData.products.find(p => p.varenr === sku)?.maerke_navn || ''.
BrandOf(sku, eetProducts) ==
    LET at == {k \in DOMAIN eetProducts : eetProducts[k].varenr = sku}
    IN  IF at = {} THEN <<>> ELSE eetProducts[Min(at)].maerke_navn

\* index.js 343-364: the branch on stockObject.length (Stock is present).
StockBranch(item, eetItem, product, rs) ==
    LET sku == eetItem.ItemId
        stockObject == eetItem.Stock.list
        localStock == LastQuantity(stockObject, "Local")
        remoteStock == LastQuantity(stockObject, "Remote")
    IN  IF Len(stockObject) > 0
        THEN LET quantityResult == updateProductQuantity(item, sku, localStock + remoteStock,
                                                         product, rs[2])
                 saveStockObject == updateStockObject(item, sku, product, rs[3])
                 active == makeProductActive(item, product, rs[4])
             IN  [calls |-> quantityResult.calls \o saveStockObject.calls \o active.calls,
                  threw |-> active.threw]
        ELSE IF product # NoProduct
        THEN [calls |-> makeProductDraft("live", item, product, rs[4]).calls, threw |-> FALSE]
        ELSE [calls |-> <<>>, threw |-> FALSE]

\* index.js 311-387: the body of the STEP 7 loop for the item at index item.
\* rs are the responses to the price, inventory, stock-object, status and
\* tag requests.  A missing Price makes `eetItem.Price.Price` (line 325)
\* throw, a missing Stock makes `stockObject.length` (line 343) throw; both
\* land in the catch of line 384.
LiveItemBody(item, eetItem, existingProducts, eetProducts, rs) ==
    LET sku == eetItem.ItemId
        product == findProductBySKU(sku, existingProducts)
        brandName == BrandOf(sku, eetProducts)
        price == eetItem.Price.Price + eetItem.Price.VatAmount
        result == updateProductPrice(item, sku, price, product, rs[1])
        ok1 == IF result.success THEN 1 ELSE 0
        err1 == 1 - ok1
        branch == StockBranch(item, eetItem, product, rs)
        tags == IF product # NoProduct /\ brandName # <<>>
                THEN addProductTags(item, product, brandName, rs[5])
                ELSE <<>>
    IN  IF ~eetItem.Price.present
        THEN [calls |-> <<>>, ok |-> 0, err |-> 1]
        ELSE IF ~eetItem.Stock.present
        THEN [calls |-> result.calls, ok |-> ok1, err |-> err1 + 1]
        ELSE IF branch.threw
        THEN [calls |-> result.calls \o branch.calls, ok |-> ok1, err |-> err1 + 1]
        ELSE [calls |-> result.calls \o branch.calls \o tags, ok |-> ok1, err |-> err1]

\* ------------------------------------------------------------- the run
SkuX == <<88>>
SkuY == <<89>>
SkuZ == <<90>>
BrandA == <<65>>

\* Rows of the feed of a run: SKU X or Y, price 123.45, stock 4.
RunRows == [varenr : {SkuX, SkuY}, maerke_navn : {BrandA},
            pris : {12345}, lagerbeholdning : {4}]

\* loadFilterConfig's fallback (csvParseAndFilter.js 25), read as the rule
\* with nothing listed and no limit.
EmptyRule ==
    [include |-> [brand |-> {}, sku |-> {}], exclude |-> [brand |-> {}, sku |-> {}],
     include_products_limit |-> 0]
\* A rule that excludes SKU "y".
ExcludeYRule == [EmptyRule EXCEPT !.exclude.sku = {<<121>>}]

\* Products of the store before a run: SKU X is also in the feed, SKU Z is not.
VariantSkus == {<<SkuX>>, <<SkuZ>>, <<SkuX, SkuZ>>, <<SkuZ, SkuX>>}
StoreProducts(quantities) ==
    [status : {"ACTIVE", "DRAFT"}, skus : VariantSkus, price : {9900}, qty : quantities]

\* Vendor items: what the vendor API returns for one SKU.
InStockItem ==
    [Price |-> PriceOf(10000, 2500),
     Stock |-> StockOf(<<StockEntry("Local", 3), StockEntry("Remote", 2),
                         StockEntry("Incoming", 10)>>)]
VendorPrices == {NoPrice, PriceOf(0, 0), PriceOf(10000, 2500)}
VendorStocks ==
    {NoStock, StockOf(<<>>),
     StockOf(<<StockEntry("Local", 0), StockEntry("Remote", 0), StockEntry("Incoming", 10)>>),
     StockOf(<<StockEntry("Local", 3), StockEntry("Remote", 2), StockEntry("Incoming", 10)>>),
     StockOf(<<StockEntry("Local", 3), StockEntry("Local", 4)>>),
     StockOf(<<StockEntry("Incoming", 10)>>)}
VendorItems == [Price : VendorPrices, Stock : VendorStocks]

\* createErrors is the errors array of STEP 5, kept by the SKU of its entries.
\* fetches counts the calls of getAllProducts, vendorQueries those of
\* getAllProductsPriceAndStock; login is loginResult.success ("none" before).
ZeroCounts == [created |-> 0, createFailed |-> 0, createErrors |-> <<>>,
               drafted |-> 0, draftFailed |-> 0, liveOk |-> 0, liveErr |-> 0,
               fetches |-> 0, login |-> "none", vendorQueries |-> 0]

RunIdle ==
    /\ remote = <<>>
    /\ shopifyProducts = <<>>
    /\ unregisteredProducts = <<>>
    /\ registeredProducts = <<>>
    /\ orphans = <<>>
    /\ vendor = <<>>
    /\ eetPriceAndStock = <<>>
    /\ liveProducts = <<>>
    /\ i = 0
    /\ calls = <<>>
    /\ counts = ZeroCounts
    /\ faultsLeft = 0
    /\ exitCode = "none"

\* ------------------------------------------------------ cleanProductData
\* Characters of a raw CSV value: '"', ' ', ',', '.', and '1', '5', 'a'.
Quote == 34
Space == 32
Comma == 44
Dot == 46

\* A value of a row: a string, or undefined when the column is missing.
Text(t) == [present |-> TRUE, text |-> t]
Undefined == [present |-> FALSE, text |-> <<>>]
RawValues ==
    {Undefined}
        \cup {Text(t) : t \in SeqsUpTo({Quote, Space, Comma, Dot, 49, 53, 97}, MaxRawLen)}

\* A JavaScript number in units of 10^-MaxRawLen, or NaN.
Scale == 10 ^ MaxRawLen
Num(n) == [nan |-> FALSE, scaled |-> n]
NaN == [nan |-> TRUE, scaled |-> 0]

\* value.replace(/^"|"$/g, '') (line 95): a quote at the start and a quote at
\* the end are removed.
StripQuotes(t) ==
    LET a == IF t # <<>> /\ Head(t) = Quote THEN Tail(t) ELSE t
    IN  IF a # <<>> /\ a[Len(a)] = Quote THEN SubSeq(a, 1, Len(a) - 1) ELSE a

RECURSIVE trimStart(_)
trimStart(t) == IF t # <<>> /\ Head(t) = Space THEN trimStart(Tail(t)) ELSE t

RECURSIVE trimEnd(_)
trimEnd(t) ==
    IF t # <<>> /\ t[Len(t)] = Space THEN trimEnd(SubSeq(t, 1, Len(t) - 1)) ELSE t

\* String.prototype.trim (line 95).
trim(t) == trimEnd(trimStart(t))

\* line 95: strings are stripped of quotes and trimmed, other values kept.
CleanValue(v) == IF v.present THEN Text(trim(StripQuotes(v.text))) ELSE v

\* String.prototype.replace(',', '.') with a string pattern: the first comma.
RECURSIVE ReplaceFirstComma(_)
ReplaceFirstComma(t) ==
    IF t = <<>> THEN <<>>
    ELSE IF Head(t) = Comma THEN <<Dot>> \o Tail(t)
    ELSE <<Head(t)>> \o ReplaceFirstComma(Tail(t))

\* The longest prefix of decimal digits ('0'..'9' are 48..57).
RECURSIVE TakeDigits(_)
TakeDigits(t) ==
    IF t # <<>> /\ Head(t) \in 48..57 THEN <<Head(t)>> \o TakeDigits(Tail(t)) ELSE <<>>

RECURSIVE DigitsValue(_)
DigitsValue(d) ==
    IF d = <<>> THEN 0 ELSE 10 * DigitsValue(SubSeq(d, 1, Len(d) - 1)) + (d[Len(d)] - 48)

\* parseFloat: leading white space is skipped, the longest prefix that is a
\* decimal literal (digits, digits '.', digits '.' digits, '.' digits) is the
\* value, and without such a prefix the result is NaN.  The characters of
\* RawChars give no sign, exponent or "Infinity".
parseFloat(s) ==
    LET t == trimStart(s)
        int == TakeDigits(t)
        rest == SubSeq(t, Len(int) + 1, Len(t))
        frac == IF rest # <<>> /\ Head(rest) = Dot THEN TakeDigits(Tail(rest)) ELSE <<>>
    IN  IF int = <<>> /\ frac = <<>>
        THEN NaN
        ELSE Num(DigitsValue(int) * Scale
                 + DigitsValue(frac) * 10 ^ (MaxRawLen - Len(frac)))

\* lines 104-107: parseFloat(cleanRow.f?.replace(',', '.') || '0').  An
\* undefined value and the empty string are falsy and give '0'.
ParseNumeric(v) ==
    LET replaced == IF v.present THEN Text(ReplaceFirstComma(v.text)) ELSE Undefined
    IN  IF ~replaced.present \/ replaced.text = <<>>
        THEN parseFloat(<<48>>)
        ELSE parseFloat(replaced.text)

NumericFields == {"pris", "lagerbeholdning", "bruttovaegt", "nettovaegt"}

\* cleanProductData without the check of the required fields.
cleanProductDataUnvalidated(r) ==
    LET cleanRow == [k \in DOMAIN r |-> CleanValue(r[k])]
    IN  [isNull |-> FALSE, varenr |-> cleanRow.varenr.text,
         beskrivelse |-> cleanRow.beskrivelse.text,
         pris |-> ParseNumeric(cleanRow.pris),
         lagerbeholdning |-> ParseNumeric(cleanRow.lagerbeholdning),
         bruttovaegt |-> ParseNumeric(cleanRow.bruttovaegt),
         nettovaegt |-> ParseNumeric(cleanRow.nettovaegt)]

\* cleanProductData(row), lines 90-131: null without varenr or beskrivelse,
\* else the row with its four numeric fields parsed.
cleanProductData(r) ==
    LET cleanRow == [k \in DOMAIN r |-> CleanValue(r[k])]
        falsy(v) == ~v.present \/ v.text = <<>>
    IN  IF falsy(cleanRow.varenr) \/ falsy(cleanRow.beskrivelse)
        THEN [isNull |-> TRUE, varenr |-> <<>>, beskrivelse |-> <<>>, pris |-> Num(0),
              lagerbeholdning |-> Num(0), bruttovaegt |-> Num(0), nettovaegt |-> Num(0)]
        ELSE [isNull |-> FALSE, varenr |-> cleanRow.varenr.text,
              beskrivelse |-> cleanRow.beskrivelse.text,
              pris |-> ParseNumeric(cleanRow.pris),
              lagerbeholdning |-> ParseNumeric(cleanRow.lagerbeholdning),
              bruttovaegt |-> ParseNumeric(cleanRow.bruttovaegt),
              nettovaegt |-> ParseNumeric(cleanRow.nettovaegt)]

NoRow ==
    [varenr |-> Undefined, beskrivelse |-> Undefined, pris |-> Undefined,
     lagerbeholdning |-> Undefined, bruttovaegt |-> Undefined, nettovaegt |-> Undefined]

IoIdle ==
    /\ isLoggedIn = FALSE
    /\ batchSize = 0
    /\ batchNumber = 0
    /\ eetRequests = <<>>
    /\ allProducts = <<>>
    /\ cursor = 0
    /\ hasNextPage = FALSE
    /\ pageRequests = <<>>
    /\ scheduledRuns = 0

ParseIdle ==
    /\ row = NoRow
    /\ cleaned = cleanProductData(NoRow)
    /\ csvFile = <<>>
    /\ csvPos = 0

\* Rows of a CSV file: varenr, beskrivelse from the given values; one numeric
\* column takes each of the given values, the other three hold "1".
ParseRows(skus, titles, numbers) ==
    {[varenr |-> k, beskrivelse |-> b,
      pris |-> IF g = "pris" THEN v ELSE Text(<<49>>),
      lagerbeholdning |-> IF g = "lagerbeholdning" THEN v ELSE Text(<<49>>),
      bruttovaegt |-> IF g = "bruttovaegt" THEN v ELSE Text(<<49>>),
      nettovaegt |-> IF g = "nettovaegt" THEN v ELSE Text(<<49>>)] :
        k \in skus, b \in titles, g \in NumericFields, v \in numbers}

\* ------------------------------------------------------------ SpecFilter
InitFilter ==
    /\ pc = "filter"
    /\ filterConfig \in FilterConfigs
    /\ products \in SeqsUpTo(FeedRows, MaxRecords)
    /\ afterInclude = <<>>
    /\ afterExclude = <<>>
    /\ filtered = <<>>
    /\ ParseIdle
    /\ IoIdle
    /\ GqlIdle
    /\ RunIdle

\* One call of filterProducts(products); the intermediate values of the
\* local filteredProducts are kept for inspection.
FilterProducts ==
    /\ pc = "filter"
    /\ afterInclude' = IncludePass(filterConfig, products)
    /\ afterExclude' = ExcludePass(filterConfig, afterInclude')
    /\ filtered' = LimitPass(filterConfig, afterExclude')
    /\ pc' = "filtered"
    /\ UNCHANGED <<filterConfig, products, row, cleaned, csvFile, csvPos, gqlVars, ioVars,
                   runVars>>

\* filterProducts called on its own result: the first result becomes the
\* argument.
FilterAgain ==
    /\ pc = "filtered"
    /\ products' = filtered
    /\ afterInclude' = IncludePass(filterConfig, products')
    /\ afterExclude' = ExcludePass(filterConfig, afterInclude')
    /\ filtered' = LimitPass(filterConfig, afterExclude')
    /\ pc' = "refiltered"
    /\ UNCHANGED <<filterConfig, row, cleaned, csvFile, csvPos, gqlVars, ioVars, runVars>>

NextFilter ==
    \/ FilterProducts
    \/ FilterAgain

SpecFilter == InitFilter /\ [][NextFilter]_vars

\* ------------------------------------------------------------- SpecParse
\* Files of one row with every raw value in a numeric column, and files of up
\* to MaxCsvRows rows whose SKU is missing, "", '" "', '"X"' or "Y" and whose
\* title is "", " " or "T".
InitParse ==
    /\ pc = "clean"
    /\ filterConfig = EmptyRule
    /\ products = <<>>
    /\ afterInclude = <<>>
    /\ afterExclude = <<>>
    /\ filtered = <<>>
    /\ row = NoRow
    /\ cleaned = cleanProductData(NoRow)
    /\ csvFile \in
         {<<r>> : r \in ParseRows({Text(<<>>), Text(<<88>>)}, {Text(<<>>), Text(<<88>>)},
                                  RawValues)}
           \cup SeqsUpTo(ParseRows({Undefined, Text(<<>>), Text(<<Quote, Space, Quote>>),
                                    Text(<<Quote, 88, Quote>>), Text(<<89>>)},
                                   {Text(<<>>), Text(<<Space>>), Text(<<84>>)},
                                   {Text(<<49>>)}),
                         MaxCsvRows)
    /\ csvPos = 0
    /\ IoIdle
    /\ GqlIdle
    /\ RunIdle

\* The 'data' handler of parseCSV (lines 67-73) for the next row of the file:
\* cleanProductData(row), and the product is pushed when it is not null and
\* has a varenr.
CleanProductData ==
    /\ pc \in {"clean", "cleaned"}
    /\ csvPos < Len(csvFile)
    /\ row' = csvFile[csvPos + 1]
    /\ cleaned' = cleanProductData(row')
    /\ products' = IF ~cleaned'.isNull /\ cleaned'.varenr # <<>>
                   THEN Append(products, cleaned')
                   ELSE products
    /\ csvPos' = csvPos + 1
    /\ pc' = "cleaned"
    /\ UNCHANGED <<filterConfig, afterInclude, afterExclude, filtered, csvFile,
                   gqlVars, ioVars, runVars>>

\* The 'end' handler of parseCSV (lines 74-78): the promise resolves with the
\* products collected.
ParseEnd ==
    /\ pc \in {"clean", "cleaned"}
    /\ csvPos = Len(csvFile)
    /\ pc' = "parsed"
    /\ UNCHANGED <<filterVars, gqlVars, ioVars, runVars>>

SpecParse == InitParse /\ [][CleanProductData \/ ParseEnd]_vars

\* ------------------------------------------ getAllProductsPriceAndStock
\* Batches that overlap by one item (slice(i, i + batchSize + 1)).
BatchesOverlapping(items, size) ==
    [b \in 1..((Len(items) + size - 1) \div size) |->
        SubSeq(items, (b - 1) * size + 1, Min({b * size + 1, Len(items)}))]

\* eet.js 161-164: batches.push(items.slice(i, i + batchSize)) for
\* i = 0, batchSize, 2 * batchSize, ... below items.length.
Batches(items, size) ==
    [b \in 1..((Len(items) + size - 1) \div size) |->
        SubSeq(items, (b - 1) * size + 1, Min({b * size, Len(items)}))]

\* eet.js 156-158: the items of the request, one per feed record.
EetItems == [k \in DOMAIN products |-> [ItemId |-> products[k].varenr]]

InitVendor ==
    /\ pc = "vendorQuery"
    /\ filterConfig = EmptyRule
    /\ products \in SeqsUpTo([varenr : {<<88>>, <<89>>}, maerke_navn : {<<65>>}], MaxItems)
    /\ afterInclude = <<>>
    /\ afterExclude = <<>>
    /\ filtered = <<>>
    /\ row = NoRow
    /\ cleaned = cleanProductData(NoRow)
    /\ csvFile = <<>>
    /\ csvPos = 0
    /\ isLoggedIn \in BOOLEAN
    /\ batchSize \in 1..MaxBatch
    /\ batchNumber = 0
    /\ eetRequests = <<>>
    /\ allProducts = <<>>
    /\ cursor = 0
    /\ hasNextPage = FALSE
    /\ pageRequests = <<>>
    /\ scheduledRuns = 0
    /\ GqlIdle
    /\ RunIdle

\* eet.js 145-147 and 249-262: without a session the function throws at once
\* and its outer catch returns [].
NotAuthenticated ==
    /\ pc = "vendorQuery"
    /\ ~isLoggedIn
    /\ allProducts' = <<>>
    /\ pc' = "vendorDone"
    /\ UNCHANGED <<filterVars, gqlVars, isLoggedIn, batchSize, batchNumber, eetRequests,
                   cursor, hasNextPage, pageRequests, scheduledRuns,
                   runVars>>

\* One batch whose failure ends the whole query with [] (the error is thrown
\* on to the outer catch).
RequestBatchFatal ==
    /\ pc = "vendorQuery"
    /\ isLoggedIn
    /\ batchNumber < Len(Batches(EetItems, batchSize))
    /\ batchNumber' = batchNumber + 1
    /\ \E outcome \in {"array", "arrayShort", "items", "noItems", "status", "throws"} :
         LET batch == Batches(EetItems, batchSize)[batchNumber + 1]
             productsArray ==
                 CASE outcome \in {"array", "items"} -> batch
                   [] outcome = "arrayShort" -> Tail(batch)
                   [] OTHER -> <<>>
         IN  /\ eetRequests' = Append(eetRequests,
                 [Items |-> batch, outcome |-> outcome, productsArray |-> productsArray])
             /\ IF outcome \in {"status", "throws"}
                THEN allProducts' = <<>> /\ pc' = "vendorDone"
                ELSE allProducts' = allProducts \o productsArray /\ pc' = pc
    /\ UNCHANGED <<filterVars, gqlVars, isLoggedIn, batchSize, cursor, hasNextPage,
                   pageRequests, scheduledRuns, runVars>>

\* eet.js 170-228, one turn of the loop over the batches: the request is sent
\* and awaited.  The response is an array ("array", or "arrayShort" when the
\* vendor leaves out the first item), an object with Items, an object without
\* Items, a non-OK status, or the fetch throws; the last two are caught at
\* 215-227 and the loop goes on.
RequestBatch ==
    /\ pc = "vendorQuery"
    /\ isLoggedIn
    /\ batchNumber < Len(Batches(EetItems, batchSize))
    /\ batchNumber' = batchNumber + 1
    /\ \E outcome \in {"array", "arrayShort", "items", "noItems", "status", "throws"} :
         LET batch == Batches(EetItems, batchSize)[batchNumber + 1]
             productsArray ==
                 CASE outcome \in {"array", "items"} -> batch
                   [] outcome = "arrayShort" -> Tail(batch)
                   [] OTHER -> <<>>
         IN  /\ eetRequests' = Append(eetRequests,
                 [Items |-> batch, outcome |-> outcome, productsArray |-> productsArray])
             /\ allProducts' = allProducts \o productsArray
    /\ UNCHANGED <<pc, filterVars, gqlVars, isLoggedIn, batchSize, cursor, hasNextPage,
                   pageRequests, scheduledRuns, runVars>>

\* eet.js 230-238: after the last batch allProducts is returned.
ReturnAllProducts ==
    /\ pc = "vendorQuery"
    /\ isLoggedIn
    /\ batchNumber = Len(Batches(EetItems, batchSize))
    /\ pc' = "vendorDone"
    /\ UNCHANGED <<filterVars, gqlVars, ioVars, runVars>>

SpecVendor == InitVendor /\ [][NotAuthenticated \/ RequestBatch \/ ReturnAllProducts]_vars

\* ------------------------------------------------------- getAllProducts
\* part_002 717-720: Shopify's maximum page size.
PageLimit == 250

InitPages ==
    /\ pc = "pages"
    /\ filterConfig = EmptyRule
    /\ products = <<>>
    /\ afterInclude = <<>>
    /\ afterExclude = <<>>
    /\ filtered = <<>>
    /\ ParseIdle
    /\ isLoggedIn = FALSE
    /\ batchSize \in {1, 2, PageLimit, PageLimit + 1}
    /\ batchNumber = 0
    /\ eetRequests = <<>>
    /\ allProducts = <<>>
    /\ cursor = 0
    /\ hasNextPage = TRUE
    /\ pageRequests = <<>>
    /\ scheduledRuns = 0
    /\ GqlIdle
    /\ remote \in SeqsUpTo([status : {"ACTIVE"}, skus : {<<SkuX>>, <<SkuZ>>},
                            price : {9900}, qty : {0}], MaxCatalog)
    /\ shopifyProducts = <<>>
    /\ unregisteredProducts = <<>>
    /\ registeredProducts = <<>>
    /\ orphans = <<>>
    /\ vendor = <<>>
    /\ eetPriceAndStock = <<>>
    /\ liveProducts = <<>>
    /\ i = 0
    /\ calls = <<>>
    /\ counts = ZeroCounts
    /\ faultsLeft = 0
    /\ exitCode = "none"

\* A turn of the loop that stops after the page it fetched, whatever the page
\* reports.
GetProductsPageOnce ==
    /\ pc = "pages"
    /\ hasNextPage
    /\ LET first == Min({batchSize, PageLimit})
           last == Min({cursor + first, Len(remote)})
           page == SubSeq(AllNodes(remote), cursor + 1, last)
       IN  /\ pageRequests' = Append(pageRequests,
               [first |-> first, after |-> cursor, threw |-> FALSE, products |-> page,
                hasNextPage |-> last < Len(remote),
                endCursor |-> IF page = <<>> THEN 0 ELSE last])
           /\ allProducts' = allProducts \o page
           /\ hasNextPage' = FALSE
           /\ cursor' = IF page = <<>> THEN 0 ELSE last
    /\ UNCHANGED <<pc, filterVars, gqlVars, isLoggedIn, batchSize, batchNumber, eetRequests,
                   scheduledRuns, runVars>>

\* part_002 763-785, one turn of the while loop: getProducts(batchSize, cursor)
\* (673-737) asks for Math.min(limit, 250) nodes after the cursor.  The store
\* answers with the nodes that follow the cursor, the cursor of the last one
\* (null for an empty page) and whether more follow; or the call throws, which
\* getAllProducts rethrows (795-801).
GetProductsPage ==
    /\ pc = "pages"
    /\ hasNextPage
    /\ \E threw \in BOOLEAN :
         LET first == Min({batchSize, PageLimit})
             last == Min({cursor + first, Len(remote)})
             page == SubSeq(AllNodes(remote), cursor + 1, last)
             result == [first |-> first, after |-> cursor, threw |-> threw,
                        products |-> page, hasNextPage |-> last < Len(remote),
                        endCursor |-> IF page = <<>> THEN 0 ELSE last]
         IN  /\ pageRequests' = Append(pageRequests, result)
             /\ IF threw
                THEN /\ pc' = "pagesFailed"
                     /\ UNCHANGED <<allProducts, hasNextPage, cursor>>
                ELSE /\ allProducts' = allProducts \o result.products
                     /\ hasNextPage' = result.hasNextPage
                     /\ cursor' = result.endCursor
                     /\ pc' = pc
    /\ UNCHANGED <<filterVars, gqlVars, isLoggedIn, batchSize, batchNumber, eetRequests,
                   scheduledRuns, runVars>>

\* part_002 787-792: the loop is left and allProducts returned.
ReturnProducts ==
    /\ pc = "pages"
    /\ ~hasNextPage
    /\ pc' = "pagesDone"
    /\ UNCHANGED <<filterVars, gqlVars, ioVars, runVars>>

\* Each await of getAllProducts resumes: weak fairness of its steps.
SpecPages ==
    /\ InitPages
    /\ [][GetProductsPage \/ ReturnProducts]_vars
    /\ WF_vars(GetProductsPage \/ ReturnProducts)

\* ----------------------------------------------------------- SpecGraphQL
InitGraphQL ==
    /\ pc = "graphql"
    /\ filterConfig = EmptyRule
    /\ products = <<>>
    /\ afterInclude = <<>>
    /\ afterExclude = <<>>
    /\ filtered = <<>>
    /\ ParseIdle
    /\ IoIdle
    /\ gqlResponse \in GqlResponses
    /\ gqlResult = NoResult
    /\ RunIdle

\* One call of runGraphQL whose fetch resolved with gqlResponse.
RunGraphQL ==
    /\ pc = "graphql"
    /\ gqlResult' = runGraphQL(gqlResponse)
    /\ pc' = "graphqlDone"
    /\ UNCHANGED <<gqlResponse, filterVars, ioVars, runVars>>

NextGraphQL == RunGraphQL

SpecGraphQL == InitGraphQL /\ [][NextGraphQL]_vars

\* ------------------------------------------------------------ main()
InitRun(configs, rows, stores, vendors, faults) ==
    /\ pc = "start"
    /\ filterConfig \in configs
    /\ products \in rows
    /\ afterInclude = <<>>
    /\ afterExclude = <<>>
    /\ filtered = <<>>
    /\ ParseIdle
    /\ IoIdle
    /\ GqlIdle
    /\ remote \in stores
    /\ shopifyProducts = <<>>
    /\ unregisteredProducts = <<>>
    /\ registeredProducts = <<>>
    /\ orphans = <<>>
    /\ vendor \in vendors
    /\ eetPriceAndStock = <<>>
    /\ liveProducts = <<>>
    /\ i = 0
    /\ calls = <<>>
    /\ counts = ZeroCounts
    /\ faultsLeft \in faults
    /\ exitCode = "none"

\* index.js 420-429: the catch of main.
Exit1 ==
    /\ pc' = "exit"
    /\ exitCode' = "1"

\* index.js 95-96: loadShopifyConfig returns a configuration.
LoadShopifyConfig ==
    /\ pc = "start"
    /\ pc' = "fetch"
    /\ UNCHANGED <<filterVars, gqlVars, ioVars, runVars>>

\* A missing shop domain or access token that ends the run as a success.
ConfigMissingExitsZero ==
    /\ pc = "start"
    /\ pc' = "exit"
    /\ exitCode' = "0"
    /\ UNCHANGED <<filterVars, gqlVars, ioVars, remote, shopifyProducts, unregisteredProducts,
                   registeredProducts, orphans, vendor, eetPriceAndStock, liveProducts,
                   i, calls, counts, faultsLeft>>

\* index.js 32-34, 58: shop domain or access token missing.
ConfigMissing ==
    /\ pc = "start"
    /\ Exit1
    /\ UNCHANGED <<filterVars, gqlVars, ioVars, remote, shopifyProducts, unregisteredProducts,
                   registeredProducts, orphans, vendor, eetPriceAndStock, liveProducts,
                   i, calls, counts, faultsLeft>>

\* index.js 115: the bulk fetch of STEP 1; a throwing page ends the run.
FetchRemote ==
    /\ pc = "fetch"
    /\ \E resp \in Responses(faultsLeft) :
         /\ faultsLeft' = IF resp = RespOk THEN faultsLeft ELSE faultsLeft - 1
         /\ IF runGraphQL(resp).threw
            THEN /\ Exit1
                 /\ UNCHANGED shopifyProducts
            ELSE /\ shopifyProducts' = AllNodes(remote)
                 /\ pc' = "filter"
                 /\ UNCHANGED exitCode
    /\ counts' = [counts EXCEPT !.fetches = @ + 1]
    /\ UNCHANGED <<filterVars, gqlVars, ioVars, remote, unregisteredProducts, registeredProducts,
                   orphans, vendor, eetPriceAndStock, liveProducts, i, calls>>

\* csvParseAndFilter.js 38-41: the feed file does not exist.
FeedFileMissing ==
    /\ pc = "filter"
    /\ Exit1
    /\ UNCHANGED <<filterVars, gqlVars, ioVars, remote, shopifyProducts, unregisteredProducts,
                   registeredProducts, orphans, vendor, eetPriceAndStock, liveProducts,
                   i, calls, counts, faultsLeft>>

\* index.js 176-191: STEP 4.
BuildPlan ==
    /\ pc = "filtered"
    /\ LET plan == Compare(filtered, shopifyProducts, <<>>, <<>>)
       IN  /\ unregisteredProducts' = plan.unregistered
           /\ registeredProducts' = plan.registered
    /\ i' = 1
    /\ pc' = "create"
    /\ UNCHANGED <<filterVars, gqlVars, ioVars, remote, shopifyProducts, orphans, vendor,
                   eetPriceAndStock, liveProducts, calls, counts, faultsLeft, exitCode>>

\* The STEP 5 iteration without the try/catch around createProduct: a
\* thrown create reaches the catch of main.
CreateItemUncaught ==
    /\ pc = "create"
    /\ i <= Len(unregisteredProducts)
    /\ \E rs \in ResponseSeqs(3, faultsLeft) :
         LET created == createProduct(i, unregisteredProducts[i], Len(remote) + 1, rs)
         IN  /\ FaultsIn(created.calls) <= faultsLeft
             /\ \A k \in 1..3 : k > Len(created.calls) => rs[k] = RespOk
             /\ faultsLeft' = faultsLeft - FaultsIn(created.calls)
             /\ calls' = calls \o created.calls
             /\ remote' = ApplyCalls(remote, created.calls)
             /\ IF created.threw
                THEN /\ Exit1
                     /\ counts' = [counts EXCEPT !.createFailed = @ + 1,
                                                  !.createErrors =
                                                      Append(@, unregisteredProducts[i].sku)]
                ELSE /\ counts' = [counts EXCEPT !.created = @ + 1]
                     /\ UNCHANGED <<pc, exitCode>>
    /\ i' = i + 1
    /\ UNCHANGED <<filterVars, gqlVars, ioVars, shopifyProducts, unregisteredProducts,
                   registeredProducts, orphans, vendor, eetPriceAndStock, liveProducts>>

\* index.js 244-280: one iteration of the STEP 5 loop.
CreateItem ==
    /\ pc = "create"
    /\ i <= Len(unregisteredProducts)
    /\ \E rs \in ResponseSeqs(3, faultsLeft) :
         LET created == createProduct(i, unregisteredProducts[i], Len(remote) + 1, rs)
         IN  /\ FaultsIn(created.calls) <= faultsLeft
             /\ \A k \in 1..3 : k > Len(created.calls) => rs[k] = RespOk
             /\ faultsLeft' = faultsLeft - FaultsIn(created.calls)
             /\ calls' = calls \o created.calls
             /\ remote' = ApplyCalls(remote, created.calls)
             /\ counts' = IF created.threw
                          THEN [counts EXCEPT !.createFailed = @ + 1,
                                              !.createErrors =
                                                  Append(@, unregisteredProducts[i].sku)]
                          ELSE [counts EXCEPT !.created = @ + 1]
    /\ i' = i + 1
    /\ UNCHANGED <<pc, filterVars, gqlVars, ioVars, shopifyProducts, unregisteredProducts,
                   registeredProducts, orphans, vendor, eetPriceAndStock, liveProducts,
                   exitCode>>

\* An orphan phase that reads the store afresh and takes every product that is
\* not a draft and has a variant whose SKU (an empty one too) is not in the feed.
FindOrphansFresh ==
    /\ pc = "create"
    /\ i > Len(unregisteredProducts)
    /\ LET eetSkus == {filtered[k].varenr : k \in DOMAIN filtered}
           notInEET(p) == /\ p.status # "DRAFT"
                          /\ \E v \in DOMAIN p.skus : p.skus[v] \notin eetSkus
       IN  orphans' = SelectSeq(AllNodes(remote), notInEET)
    /\ i' = 1
    /\ pc' = "draft"
    /\ UNCHANGED <<filterVars, gqlVars, ioVars, remote, shopifyProducts, unregisteredProducts,
                   registeredProducts, vendor, eetPriceAndStock, liveProducts, calls,
                   counts, faultsLeft, exitCode>>

\* index.js 293, part_002 1167-1208: STEP 6 starts once the STEP 5 loop is
\* over; the orphans are picked from the snapshot of STEP 1.
FindOrphans ==
    /\ pc = "create"
    /\ i > Len(unregisteredProducts)
    /\ orphans' = OrphanedProducts(shopifyProducts, filtered)
    /\ i' = 1
    /\ pc' = "draft"
    /\ UNCHANGED <<filterVars, gqlVars, ioVars, remote, shopifyProducts, unregisteredProducts,
                   registeredProducts, vendor, eetPriceAndStock, liveProducts, calls,
                   counts, faultsLeft, exitCode>>

\* part_002 1220-1236: one iteration of the draft loop.
DraftOrphan ==
    /\ pc = "draft"
    /\ i <= Len(orphans)
    /\ \E resp \in Responses(faultsLeft) :
         LET result == makeProductDraft("orphans", i, orphans[i], resp)
         IN  /\ faultsLeft' = faultsLeft - FaultsIn(result.calls)
             /\ calls' = calls \o result.calls
             /\ remote' = ApplyCalls(remote, result.calls)
             /\ counts' = IF result.success
                          THEN [counts EXCEPT !.drafted = @ + 1]
                          ELSE [counts EXCEPT !.draftFailed = @ + 1]
    /\ i' = i + 1
    /\ UNCHANGED <<pc, filterVars, gqlVars, ioVars, shopifyProducts, unregisteredProducts,
                   registeredProducts, orphans, vendor, eetPriceAndStock, liveProducts,
                   exitCode>>

DraftPhaseOver == pc = "draft" /\ i > Len(orphans)

\* index.js 299-301, eet.js 25-94: the vendor login succeeds.
LoginOk ==
    /\ DraftPhaseOver
    /\ pc' = "vendor"
    /\ counts' = [counts EXCEPT !.login = "ok"]
    /\ UNCHANGED <<filterVars, gqlVars, ioVars, remote, shopifyProducts, unregisteredProducts,
                   registeredProducts, orphans, vendor, eetPriceAndStock, liveProducts,
                   i, calls, faultsLeft, exitCode>>

\* A login whose result is not tested: the run goes on to the vendor query.
LoginFailsIgnored ==
    /\ DraftPhaseOver
    /\ pc' = "vendor"
    /\ counts' = [counts EXCEPT !.login = "failed"]
    /\ UNCHANGED <<filterVars, gqlVars, ioVars, remote, shopifyProducts, unregisteredProducts,
                   registeredProducts, orphans, vendor, eetPriceAndStock, liveProducts,
                   i, calls, faultsLeft, exitCode>>

\* index.js 398-400, eet.js 95-110: the vendor login fails; STEP 7 is skipped.
LoginFails ==
    /\ DraftPhaseOver
    /\ pc' = "report"
    /\ counts' = [counts EXCEPT !.login = "failed"]
    /\ UNCHANGED <<filterVars, gqlVars, ioVars, remote, shopifyProducts, unregisteredProducts,
                   registeredProducts, orphans, vendor, eetPriceAndStock, liveProducts,
                   i, calls, faultsLeft, exitCode>>

\* eet.js 143-263 for a feed of at most one batch: the items of the feed's
\* SKUs in feed order, or nothing when the request fails.
VendorItemsFor(eetProducts, data) ==
    [k \in DOMAIN eetProducts |->
        [ItemId |-> eetProducts[k].varenr,
         Price |-> data[eetProducts[k].varenr].Price,
         Stock |-> data[eetProducts[k].varenr].Stock]]

\* index.js 302-304.
GetPriceAndStock ==
    /\ pc = "vendor"
    /\ \E batchOk \in BOOLEAN :
         eetPriceAndStock' = IF batchOk THEN VendorItemsFor(filtered, vendor) ELSE <<>>
    /\ pc' = IF Len(eetPriceAndStock') > 0 THEN "refetch" ELSE "report"
    /\ counts' = [counts EXCEPT !.vendorQueries = @ + 1]
    /\ UNCHANGED <<filterVars, gqlVars, ioVars, remote, shopifyProducts, unregisteredProducts,
                   registeredProducts, orphans, vendor, liveProducts, i, calls,
                   faultsLeft, exitCode>>

\* STEP 7 without the fetch of line 308: the loop reads the snapshot of STEP 1.
RefetchRemoteStale ==
    /\ pc = "refetch"
    /\ liveProducts' = shopifyProducts
    /\ i' = 1
    /\ pc' = "live"
    /\ UNCHANGED <<filterVars, gqlVars, ioVars, remote, shopifyProducts, unregisteredProducts,
                   registeredProducts, orphans, vendor, eetPriceAndStock, calls, counts,
                   faultsLeft, exitCode>>

\* index.js 308: the second bulk fetch, into the inner shopifyProducts.
RefetchRemote ==
    /\ pc = "refetch"
    /\ \E resp \in Responses(faultsLeft) :
         /\ faultsLeft' = IF resp = RespOk THEN faultsLeft ELSE faultsLeft - 1
         /\ IF runGraphQL(resp).threw
            THEN /\ Exit1
                 /\ UNCHANGED <<liveProducts, i>>
            ELSE /\ liveProducts' = AllNodes(remote)
                 /\ i' = 1
                 /\ pc' = "live"
                 /\ UNCHANGED exitCode
    /\ counts' = [counts EXCEPT !.fetches = @ + 1]
    /\ UNCHANGED <<filterVars, gqlVars, ioVars, remote, shopifyProducts, unregisteredProducts,
                   registeredProducts, orphans, vendor, eetPriceAndStock, calls>>

\* The STEP 7 iteration without the try/catch of lines 311 and 384: the
\* TypeError of a vendor item without Price reaches the catch of main.
LiveUpdateItemUncaught ==
    /\ pc = "live"
    /\ i <= Len(eetPriceAndStock)
    /\ \E rs \in ResponseSeqs(5, faultsLeft) :
         LET done == LiveItemBody(i, eetPriceAndStock[i], liveProducts, filtered, rs)
         IN  /\ Faults(rs) = FaultsIn(done.calls)
             /\ FaultsIn(done.calls) <= faultsLeft
             /\ faultsLeft' = faultsLeft - FaultsIn(done.calls)
             /\ calls' = calls \o done.calls
             /\ remote' = ApplyCalls(remote, done.calls)
             /\ counts' = [counts EXCEPT !.liveOk = @ + done.ok, !.liveErr = @ + done.err]
    /\ i' = i + 1
    /\ IF eetPriceAndStock[i].Price.present THEN UNCHANGED <<pc, exitCode>> ELSE Exit1
    /\ UNCHANGED <<filterVars, gqlVars, ioVars, shopifyProducts, unregisteredProducts,
                   registeredProducts, orphans, vendor, eetPriceAndStock, liveProducts>>

\* index.js 310-388: one iteration of the STEP 7 loop.
LiveUpdateItem ==
    /\ pc = "live"
    /\ i <= Len(eetPriceAndStock)
    /\ \E rs \in ResponseSeqs(5, faultsLeft) :
         LET done == LiveItemBody(i, eetPriceAndStock[i], liveProducts, filtered, rs)
         IN  /\ Faults(rs) = FaultsIn(done.calls)
             /\ FaultsIn(done.calls) <= faultsLeft
             /\ faultsLeft' = faultsLeft - FaultsIn(done.calls)
             /\ calls' = calls \o done.calls
             /\ remote' = ApplyCalls(remote, done.calls)
             /\ counts' = [counts EXCEPT !.liveOk = @ + done.ok, !.liveErr = @ + done.err]
    /\ i' = i + 1
    /\ UNCHANGED <<pc, filterVars, gqlVars, ioVars, shopifyProducts, unregisteredProducts,
                   registeredProducts, orphans, vendor, eetPriceAndStock, liveProducts,
                   exitCode>>

\* index.js 402-418: the run ends normally.
Report ==
    /\ pc = "report" \/ (pc = "live" /\ i > Len(eetPriceAndStock))
    /\ pc' = "done"
    /\ exitCode' = "0"
    /\ UNCHANGED <<filterVars, gqlVars, ioVars, remote, shopifyProducts, unregisteredProducts,
                   registeredProducts, orphans, vendor, eetPriceAndStock, liveProducts,
                   i, calls, counts, faultsLeft>>

Next ==
    \/ LoadShopifyConfig
    \/ ConfigMissing
    \/ FetchRemote
    \/ FeedFileMissing
    \/ FilterProducts
    \/ BuildPlan
    \/ CreateItem
    \/ FindOrphans
    \/ DraftOrphan
    \/ LoginOk
    \/ LoginFails
    \/ GetPriceAndStock
    \/ RefetchRemote
    \/ LiveUpdateItem
    \/ Report

\* Runs over varied stores and feeds; the vendor has every SKU in stock.
Init ==
    InitRun({EmptyRule, ExcludeYRule},
            SeqsUpTo(RunRows, MaxFeed),
            SeqsUpTo(StoreProducts({0}), MaxProducts),
            {[s \in {SkuX, SkuY} |-> InStockItem]},
            {0})

Spec == Init /\ [][Next]_vars

\* ------------------------------------------------------- scheduleProcess
\* index.js 442-456: main() returned (its catch, 420-429, never rethrows: it
\* calls process.exit(1), which ends the process inside main), the completion
\* is logged and setTimeout arms the next run.
ScheduleNext ==
    /\ pc = "done"
    /\ scheduledRuns' = scheduledRuns + 1
    /\ pc' = "waiting"
    /\ UNCHANGED <<filterVars, gqlVars, isLoggedIn, batchSize, batchNumber, eetRequests,
                   allProducts, cursor, hasNextPage, pageRequests, runVars>>

\* index.js 436-442, twelve hours later: runProcess calls main() again.  The
\* store, the feed, the rule and the vendor's data are those left by the run
\* before; every local of main starts afresh.
TimerFires ==
    /\ pc = "waiting"
    /\ scheduledRuns <= MaxReruns
    /\ pc' = "start"
    /\ afterInclude' = <<>>
    /\ afterExclude' = <<>>
    /\ filtered' = <<>>
    /\ shopifyProducts' = <<>>
    /\ unregisteredProducts' = <<>>
    /\ registeredProducts' = <<>>
    /\ orphans' = <<>>
    /\ eetPriceAndStock' = <<>>
    /\ liveProducts' = <<>>
    /\ i' = 0
    /\ calls' = <<>>
    /\ counts' = ZeroCounts
    /\ exitCode' = "none"
    /\ UNCHANGED <<filterConfig, products, row, cleaned, csvFile, csvPos, gqlVars, ioVars,
                   remote, vendor, faultsLeft>>

SpecSched == Init /\ [][Next \/ ScheduleNext \/ TimerFires]_vars

\* Runs over varied vendor data on a store with two products, SKU X and SKU Z.
InitLive ==
    InitRun({EmptyRule},
            SeqsUpTo(RunRows, MaxFeed),
            {<<p, [status |-> "ACTIVE", skus |-> <<SkuZ>>, price |-> 9900, qty |-> 0]>> :
                p \in [status : {"ACTIVE", "DRAFT"}, skus : {<<SkuX>>},
                       price : {9900}, qty : {0, 5}]},
            [{SkuX, SkuY} -> VendorItems],
            {0})

SpecLive == InitLive /\ [][Next]_vars

\* ------------------------------------------------------------ SpecFaults
\* Runs in which up to MaxFaults responses of the store fail, on three
\* stores (empty, SKU Z, SKUs X and Z) and three kinds of vendor item.
FaultStores ==
    {<<>>,
     <<[status |-> "ACTIVE", skus |-> <<SkuZ>>, price |-> 9900, qty |-> 0]>>,
     <<[status |-> "ACTIVE", skus |-> <<SkuX>>, price |-> 9900, qty |-> 0],
       [status |-> "ACTIVE", skus |-> <<SkuZ>>, price |-> 9900, qty |-> 0]>>}
FaultVendorItems ==
    {InStockItem,
     [Price |-> NoPrice, Stock |-> NoStock],
     [Price |-> PriceOf(10000, 2500), Stock |-> StockOf(<<>>)]}

InitFaults ==
    InitRun({EmptyRule},
            SeqsUpTo(RunRows, MaxFeed),
            FaultStores,
            [{SkuX, SkuY} -> FaultVendorItems],
            0..MaxFaults)

SpecFaults == InitFaults /\ [][Next]_vars

\* -------------------------------------------------------------- SpecPlan
\* STEP 4 alone, on larger feeds and snapshots: SKUs A, B, C, D.
SkuA == <<65>>
SkuB == <<66>>
SkuC == <<67>>
SkuD == <<68>>
PlanRows == [varenr : {SkuA, SkuB, SkuC, SkuD}, maerke_navn : {BrandA},
             pris : {12345}, lagerbeholdning : {4}]
PlanProducts ==
    [status : {"ACTIVE"},
     skus : {<<SkuA>>, <<SkuB>>, <<SkuC>>, <<SkuD>>, <<SkuD, SkuB>>},
     price : {9900}, qty : {0}]

\* main after STEP 2: the snapshot is fetched and the feed is filtered.
InitPlan ==
    /\ pc = "filtered"
    /\ filterConfig = EmptyRule
    /\ products \in SeqsUpTo(PlanRows, MaxPlanFeed)
    /\ afterInclude = products
    /\ afterExclude = products
    /\ filtered = filterProducts(filterConfig, products)
    /\ ParseIdle
    /\ IoIdle
    /\ GqlIdle
    /\ remote \in SeqsUpTo(PlanProducts, MaxPlanProducts)
    /\ shopifyProducts = AllNodes(remote)
    /\ unregisteredProducts = <<>>
    /\ registeredProducts = <<>>
    /\ orphans = <<>>
    /\ vendor = [s \in {SkuA, SkuB, SkuC, SkuD} |-> InStockItem]
    /\ eetPriceAndStock = <<>>
    /\ liveProducts = <<>>
    /\ i = 0
    /\ calls = <<>>
    /\ counts = ZeroCounts
    /\ faultsLeft = 0
    /\ exitCode = "none"

NextPlan == BuildPlan

SpecPlan == InitPlan /\ [][NextPlan]_vars

\* ----------------------------------------------------- claim vocabulary
Range(s) == {s[k] : k \in DOMAIN s}

BrandIn(p, list) == toLowerCase(p.maerke_navn) \in LowerAll(list)
SkuIn(p, list) == toLowerCase(p.varenr) \in LowerAll(list)

\* C1 (as claimed): whenever include.brand or include.sku is non-empty, a
\* row survives the include pass iff its lowercased brand is in include.brand
\* or its lowercased SKU is in include.sku.
C1_IncludeIff ==
    (pc = "filtered"
        /\ (filterConfig.include.brand # {} \/ filterConfig.include.sku # {}))
    => LET inc(p) == BrandIn(p, filterConfig.include.brand)
                     \/ SkuIn(p, filterConfig.include.sku)
       IN  afterInclude = SelectSeq(products, inc)

C3_ExcludeIsAnd ==
    pc = "filtered"
    => LET keep(p) == ~(BrandIn(p, filterConfig.exclude.brand)
                        /\ SkuIn(p, filterConfig.exclude.sku))
       IN  afterExclude = SelectSeq(afterInclude, keep)

\* ------------------------------------------------------ claims on main()
\* The vendor items whose loop iteration is over.
ProcessedItems ==
    IF pc \in {"live", "done"}
    THEN {k \in DOMAIN eetPriceAndStock : k < i}
    ELSE {}

\* The requests the STEP 7 iteration of item k sent.
LiveCallsOf(k) == {c \in Range(calls) : c.phase = "live" /\ c.item = k}

StatusSent(cs, pid, status) ==
    \E c \in cs : c.op = "status" /\ c.pid = pid /\ c.status = status

RECURSIVE SumOf(_, _)
\* Sum of the quantities of all entries of the given stock type.
SumOf(list, typeName) ==
    IF list = <<>> THEN 0
    ELSE (IF Head(list).StockTypeName = typeName THEN Head(list).Quantity ELSE 0)
         + SumOf(Tail(list), typeName)

Availability(list) == SumOf(list, "Local") + SumOf(list, "Remote")

\* C4 (as claimed): a vendor item with a price and a non-empty stock list
\* whose Local + Remote quantity is zero gets its matched product set to
\* DRAFT, and not to ACTIVE, by its iteration of the live-update loop.
C4_ZeroStockDrafts ==
    \A k \in ProcessedItems :
        LET eetItem == eetPriceAndStock[k]
            product == findProductBySKU(eetItem.ItemId, liveProducts)
        IN  (/\ eetItem.Price.present
             /\ eetItem.Stock.present
             /\ eetItem.Stock.list # <<>>
             /\ Availability(eetItem.Stock.list) = 0
             /\ product # NoProduct)
            => /\ StatusSent(LiveCallsOf(k), product.id, "DRAFT")
               /\ ~StatusSent(LiveCallsOf(k), product.id, "ACTIVE")

\* C5 (as claimed): a vendor item with a price but no stock data (Stock
\* absent, or an empty list) gets its matched product set to DRAFT by its
\* iteration of the live-update loop.
C5_NoStockDrafts ==
    \A k \in ProcessedItems :
        LET eetItem == eetPriceAndStock[k]
            product == findProductBySKU(eetItem.ItemId, liveProducts)
        IN  (/\ eetItem.Price.present
             /\ (~eetItem.Stock.present \/ eetItem.Stock.list = <<>>)
             /\ product # NoProduct)
            => StatusSent(LiveCallsOf(k), product.id, "DRAFT")

\* The draft loop of STEP 6 is over.
OrphanPhaseOver ==
    \/ pc \in {"vendor", "refetch", "live", "report", "done"}
    \/ (pc = "draft" /\ i > Len(orphans))

OrphanCalls == {c \in Range(calls) : c.phase = "orphans"}
FeedSkus == {filtered[k].varenr : k \in DOMAIN filtered}

\* C6 (as claimed): once the orphan phase is over, a DRAFT request was sent
\* for a product of the snapshot iff the product was not in DRAFT status and
\* none of its variant SKUs occurs in the filtered feed.
C6_OrphanIffNoSkuInFeed ==
    OrphanPhaseOver
    => \A n \in DOMAIN shopifyProducts :
          LET p == shopifyProducts[n]
          IN  StatusSent(OrphanCalls, p.id, "DRAFT")
              <=> (/\ p.status # "DRAFT"
                   /\ \A v \in DOMAIN p.skus : p.skus[v] \notin FeedSkus)

\* C7 (as claimed): no product matched to a feed row in STEP 4 is drafted by
\* the orphan phase, and no product gets DRAFT from the orphan phase and
\* ACTIVE from the live-update phase of the same run.
C7_PlanDisjoint ==
    /\ \A r \in DOMAIN registeredProducts :
          ~StatusSent(OrphanCalls, registeredProducts[r].shopifyProduct.id, "DRAFT")
    /\ \A c \in OrphanCalls :
          ~StatusSent({d \in Range(calls) : d.phase = "live"}, c.pid, "ACTIVE")

\* C8 (as claimed): every price request of the live-update phase carries
\* Price.Price + Price.VatAmount of the vendor item it was sent for.
C8_PriceUnscaled ==
    \A c \in Range(calls) :
        (c.phase = "live" /\ c.op = "price")
        => c.value = eetPriceAndStock[c.item].Price.Price
                     + eetPriceAndStock[c.item].Price.VatAmount

\* C9 (as claimed): a response that arrived without transport or GraphQL
\* error and reports a budget below the threshold makes runGraphQL wait
\* (maximumAvailable - currentlyAvailable) / restoreRate seconds and return.
C9_LowBudgetWaitsAndReturns ==
    (/\ pc = "graphqlDone"
     /\ gqlResponse.ok
     /\ ~gqlResponse.errors
     /\ gqlResponse.cost.currentlyAvailable < ReservedThreshold)
    => /\ ~gqlResult.threw
       /\ gqlResult.waitMs * gqlResponse.cost.restoreRate
            = (gqlResponse.cost.maximumAvailable
               - gqlResponse.cost.currentlyAvailable) * 1000

\* Some product of the snapshot has a variant with this SKU.
InSnapshot(sku) ==
    \E n \in DOMAIN shopifyProducts :
        \E v \in DOMAIN shopifyProducts[n].skus : shopifyProducts[n].skus[v] = sku

SkusOf(rows) == [k \in DOMAIN rows |-> rows[k].varenr]

\* C10: after STEP 4 every filtered feed row is in exactly one of
\* unregisteredProducts and registeredProducts, in feed order: in
\* unregisteredProducts iff no product of the snapshot has a variant with its
\* SKU; a registered row is paired with a product that has such a variant.
C10_DiffComplete ==
    pc = "create"
    => LET notInSnapshot(sku) == ~InSnapshot(sku)
       IN  /\ [k \in DOMAIN unregisteredProducts |-> unregisteredProducts[k].sku]
                = SelectSeq(SkusOf(filtered), notInSnapshot)
           /\ [k \in DOMAIN registeredProducts |-> registeredProducts[k].mappedProduct.sku]
                = SelectSeq(SkusOf(filtered), InSnapshot)
           /\ \A k \in DOMAIN registeredProducts :
                registeredProducts[k].mappedProduct.sku
                    \in Range(registeredProducts[k].shopifyProduct.skus)

\* C10 witness: feed SKUs A, B, C against remote SKUs B, C, D give
\* toCreate = {A}, toUpdate = {B, C}, and D's product is an orphan candidate.
C10_Witness ==
    /\ pc = "create"
    /\ SkusOf(filtered) = <<SkuA, SkuB, SkuC>>
    /\ [n \in DOMAIN shopifyProducts |-> shopifyProducts[n].skus]
         = <<<<SkuB>>, <<SkuC>>, <<SkuD>>>>
    /\ [k \in DOMAIN unregisteredProducts |-> unregisteredProducts[k].sku] = <<SkuA>>
    /\ [k \in DOMAIN registeredProducts |-> registeredProducts[k].mappedProduct.sku]
         = <<SkuB, SkuC>>
    /\ [k \in DOMAIN OrphanedProducts(shopifyProducts, filtered) |->
            OrphanedProducts(shopifyProducts, filtered)[k].id] = <<3>>

\* ------------------------------------------------------- phase ordering
\* Position of a phase in the order FETCH_REMOTE, PARSE_FEED/FILTER,
\* BUILD_PLAN, CREATE_PHASE, DRAFT_ORPHANS_PHASE, LIVE_UPDATE_PHASE, REPORT.
PhaseRank(p) ==
    CASE p = "start" -> 0
      [] p = "fetch" -> 1
      [] p = "filter" -> 2
      [] p = "filtered" -> 3
      [] p = "create" -> 4
      [] p = "draft" -> 5
      [] p = "vendor" -> 6
      [] p = "refetch" -> 7
      [] p = "live" -> 8
      [] p = "report" -> 9
      [] OTHER -> 10

\* The phase during which a logged request may be sent.
CallPhase(phase) ==
    CASE phase = "create" -> "create"
      [] phase = "orphans" -> "draft"
      [] OTHER -> "live"

CreateAttempts ==
    LET isCreate(c) == c.phase = "create" /\ c.op = "create"
        sent == SelectSeq(calls, isCreate)
    IN  [k \in DOMAIN sent |-> sent[k].item]

\* createProduct threw for item k: its productCreate was sent and none of
\* the follow-up requests was.
CreateFailedAt(k) ==
    /\ \E c \in Range(calls) : c.phase = "create" /\ c.item = k /\ c.op = "create"
    /\ ~\E c \in Range(calls) : c.phase = "create" /\ c.item = k /\ c.op = "variant"

\* The SKUs of the items whose create failed, in plan order.
FailedCreateSkus ==
    LET indices == [k \in DOMAIN unregisteredProducts |-> k]
        failed == SelectSeq(indices, CreateFailedAt)
    IN  [k \in DOMAIN failed |-> unregisteredProducts[failed[k]].sku]

CreatePhaseOver == pc \notin {"start", "fetch", "filter", "filtered", "create"}

\* C12: the items of toCreate are attempted once each, in order, whatever
\* the outcome of earlier items; when the phase is over successCount +
\* errorCount is the number of items and the error list has one entry, with
\* the item's SKU, for each item whose create failed.
C12_CreateIsolation ==
    /\ pc = "create" => CreateAttempts = [k \in 1..(i - 1) |-> k]
    /\ CreatePhaseOver
         => /\ CreateAttempts = [k \in DOMAIN unregisteredProducts |-> k]
            /\ counts.created + counts.createFailed = Len(unregisteredProducts)
            /\ counts.createFailed = Len(counts.createErrors)
            /\ counts.createErrors = FailedCreateSkus

\* C12 witness: the first of two items failed, the second was created.
C12_Witness ==
    /\ CreatePhaseOver
    /\ Len(unregisteredProducts) = 2
    /\ CreateFailedAt(1)
    /\ ~CreateFailedAt(2)
    /\ counts.created = 1
    /\ counts.createFailed = 1

\* C13: a failure met while an item of the orphan phase or of the
\* live-update phase is processed stays with that item: the loop moves on to
\* the next item, a loop is left only after its last item, and neither phase
\* ends the run with exit code 1.
C13_ItemErrorsContained ==
    [][/\ (pc = "draft"
             => /\ pc' \in {"draft", "vendor", "report"}
                /\ exitCode' = "none"
                /\ (pc' = "draft" => i' = i + 1)
                /\ (pc' # "draft"
                      => /\ i = Len(orphans) + 1
                         /\ counts.drafted + counts.draftFailed = Len(orphans)))
       /\ (pc = "live"
             => /\ pc' \in {"live", "done"}
                /\ exitCode' # "1"
                /\ (pc' = "live" => i' = i + 1)
                /\ (pc' = "done" => i = Len(eetPriceAndStock) + 1))]_vars

\* C13 witness: a run ended with exit code 0 in which the draft of the first
\* of two orphans failed and both of two vendor items threw.
C13_Witness ==
    /\ pc = "done"
    /\ exitCode = "0"
    /\ Len(orphans) = 2
    /\ \E c \in OrphanCalls : c.item = 1 /\ c.fault
    /\ \E c \in OrphanCalls : c.item = 2
    /\ counts.draftFailed = 1
    /\ Len(eetPriceAndStock) = 2
    /\ counts.liveErr = 2

\* ------------------------------------------------------ catalog snapshots
\* The ids of the products of a snapshot.
IdsOf(snapshot) == {snapshot[n].id : n \in DOMAIN snapshot}

\* The store a snapshot was taken from.
StoreOf(snapshot) ==
    [n \in DOMAIN snapshot |->
        [status |-> snapshot[n].status, skus |-> snapshot[n].skus,
         price |-> snapshot[n].price, qty |-> snapshot[n].qty]]

\* The requests of STEP 5 and STEP 6, in sending order.
EarlierCalls ==
    LET earlier(c) == c.phase \in {"create", "orphans"}
    IN  SelectSeq(calls, earlier)

\* The STEP 7 loop is running or has run.
LiveLoopEntered == pc = "live" \/ (pc = "done" /\ counts.fetches = 2)

\* C14 (as claimed): the catalog is fetched in bulk once per run, and the
\* live-update phase resolves products against the start-of-run snapshot:
\* every request it sends is for a product of that snapshot.
C14_SnapshotFetchedOnce ==
    /\ counts.fetches <= 1
    /\ \A c \in Range(calls) : c.phase = "live" => c.pid \in IdsOf(shopifyProducts)

\* C14 (amended): the catalog is fetched in bulk at run start and a second
\* time, and no more, right before the live-update loop.  BUILD_PLAN and the
\* orphan phase read the first snapshot; the live-update loop reads the
\* second, which is the first one with the creates and drafts of the earlier
\* phases carried out.
C14_SnapshotFetchedTwice ==
    /\ counts.fetches <= 2
    /\ (counts.fetches = 2 <=> pc \in {"live", "done", "exit"} /\ eetPriceAndStock # <<>>)
    /\ \A c \in OrphanCalls : c.pid \in IdsOf(shopifyProducts)
    /\ LiveLoopEntered
         => /\ liveProducts = AllNodes(ApplyCalls(StoreOf(shopifyProducts), EarlierCalls))
            /\ \A c \in Range(calls) : c.phase = "live" => c.pid \in IdsOf(liveProducts)

\* C14 witness: the live-update loop sent a request for a product that was
\* created during the run, after a second fetch.
C14_Witness ==
    /\ LiveLoopEntered
    /\ counts.fetches = 2
    /\ \E c \in Range(calls) :
         /\ c.phase = "live"
         /\ c.pid \notin IdsOf(shopifyProducts)
         /\ c.pid \in IdsOf(liveProducts)

\* ---------------------------------------------------- inventory quantity
\* The inventory adjustments of the live-update phase.
InventoryCalls == {c \in Range(calls) : c.phase = "live" /\ c.op = "inventory"}

\* The quantity the second snapshot records for a product.
QtyOf(pid) ==
    LET at == {n \in DOMAIN liveProducts : liveProducts[n].id = pid}
    IN  liveProducts[Min(at)].qty

\* C15 (as claimed): the inventory quantity the live-update phase writes for
\* a product (the snapshot quantity plus the adjustment it sends) is the sum
\* of the quantities of all Local and all Remote entries of the vendor item;
\* Incoming entries do not count.
C15_AvailabilityIsSum ==
    \A c \in InventoryCalls :
        QtyOf(c.pid) + c.value = Availability(eetPriceAndStock[c.item].Stock.list)

\* The quantity main hands to updateProductQuantity for a vendor item
\* (index.js 356).
NewQuantityOf(eetItem) ==
    LastQuantity(eetItem.Stock.list, "Local") + LastQuantity(eetItem.Stock.list, "Remote")

\* The vendor items for which the loop called updateProductQuantity with a
\* product: processed, with a price, a non-empty stock list and a match in
\* the second snapshot.
QuantityUpdates ==
    {k \in ProcessedItems :
        /\ eetPriceAndStock[k].Price.present
        /\ eetPriceAndStock[k].Stock.present
        /\ eetPriceAndStock[k].Stock.list # <<>>
        /\ findProductBySKU(eetPriceAndStock[k].ItemId, liveProducts) # NoProduct}

C17_LoginFailureSkipsLive ==
    counts.login = "failed"
    => /\ pc \in {"report", "done"}
       /\ exitCode # "1"
       /\ (pc = "done" => exitCode = "0")
       /\ counts.vendorQueries = 0
       /\ eetPriceAndStock = <<>>
       /\ counts.fetches = 1
       /\ \A c \in Range(calls) : c.phase # "live"
       /\ counts.created + counts.createFailed = Len(unregisteredProducts)
       /\ counts.drafted + counts.draftFailed = Len(orphans)

\* C17 witness: a run ended normally after a failed login, having created a
\* product and drafted an orphan.
C17_Witness ==
    /\ counts.login = "failed"
    /\ pc = "done"
    /\ exitCode = "0"
    /\ counts.created > 0
    /\ counts.drafted > 0

\* ------------------------------------------------------- limit, twice
\* C18: with include_products_limit = L > 0 and more than L rows left by the
\* include and exclude passes, the output is the first L of them in feed
\* order; with L = 0 (or absent), or at most L rows left, it is all of them.
C18_LimitTruncates ==
    pc = "filtered"
    => LET L == filterConfig.include_products_limit
           n == IF L > 0 /\ Len(afterExclude) > L THEN L ELSE Len(afterExclude)
       IN  filtered = [k \in 1..n |-> afterExclude[k]]

\* C18 witness: two different rows qualified under a limit of 1 and the
\* first one is the output.
C18_Witness ==
    /\ pc = "filtered"
    /\ filterConfig.include_products_limit = 1
    /\ Len(afterExclude) = 2
    /\ afterExclude[1] # afterExclude[2]
    /\ filtered = <<afterExclude[1]>>

\* C19: filterProducts applied to its own result, under the same rule,
\* returns that result unchanged.
C19_FilterIdempotent ==
    pc = "refiltered" => filtered = products

\* C19 witness: the second application ran on a non-empty first result,
\* under a rule with an exclude list and a limit equal to the result's length.
C19_Witness ==
    /\ pc = "refiltered"
    /\ products # <<>>
    /\ filterConfig.exclude.brand # {}
    /\ filterConfig.include_products_limit = Len(products)
    /\ filtered = products

\* ------------------------------------------------------------------- C20
\* C20: every numeric field of a cleaned row is a number, never NaN; a missing,
\* empty or digit-free input gives 0; and an input written with a decimal
\* comma ("1,5") gives the value of the same input written with a period.
C20_NumericParsing ==
    LET input(f) == CleanValue(row[f]).text
        hasDigit(t) == \E k \in DOMAIN t : t[k] \in 48..57
        isCommaDecimal(t) ==
            \E k \in 2..(Len(t) - 1) :
                /\ t[k] = Comma
                /\ \A j \in DOMAIN t : j # k => t[j] \in 48..57
        commaToDot(t) == [j \in DOMAIN t |-> IF t[j] = Comma THEN Dot ELSE t[j]]
    IN  (pc = "cleaned" /\ ~cleaned.isNull) =>
            \A f \in NumericFields :
                /\ ~cleaned[f].nan
                /\ ~hasDigit(input(f)) => cleaned[f] = Num(0)
                /\ isCommaDecimal(input(f)) =>
                       cleaned[f] = parseFloat(commaToDot(input(f)))

\* ------------------------------------------------------------------- C21
\* C21: the records parseCSV has emitted are, in file order, exactly the rows
\* seen so far whose SKU and title are non-empty once a surrounding quote and
\* the surrounding whitespace are stripped; each emitted record carries that
\* non-empty SKU and title; and the parse ends only after every row was seen.
C21_RowValidation ==
    LET stripped(v) == IF v.present THEN trim(StripQuotes(v.text)) ELSE <<>>
        valid(r) == stripped(r.varenr) # <<>> /\ stripped(r.beskrivelse) # <<>>
        kept == SelectSeq(SubSeq(csvFile, 1, csvPos), valid)
    IN  pc \in {"clean", "cleaned", "parsed"} =>
            /\ Len(products) = Len(kept)
            /\ \A k \in 1..Len(kept) :
                   /\ products[k].varenr = stripped(kept[k].varenr)
                   /\ products[k].beskrivelse = stripped(kept[k].beskrivelse)
                   /\ products[k].varenr # <<>>
                   /\ products[k].beskrivelse # <<>>
            /\ pc = "parsed" => csvPos = Len(csvFile)

\* C21 witness: a file of three rows was parsed to the end; its second row,
\* whose SKU is '" "', was dropped, and the rows "X" and "Y" around it were
\* emitted in that order.
C21_Witness ==
    /\ pc = "parsed"
    /\ Len(csvFile) = 3
    /\ csvFile[1].varenr = Text(<<Quote, 88, Quote>>)
    /\ csvFile[2].varenr = Text(<<Quote, Space, Quote>>)
    /\ csvFile[2].beskrivelse = Text(<<84>>)
    /\ csvFile[3].varenr = Text(<<89>>)
    /\ Len(products) = 2
    /\ products[1].varenr = <<88>>
    /\ products[2].varenr = <<89>>

\* ------------------------------------------------------------------- C22
\* C22: with a session, the chunks sent to the vendor are consecutive pieces of
\* the feed's SKU list, each of 1 to batchSize items; put together in the order
\* sent they are a prefix of the list, and the whole list once the query has
\* returned, so every SKU is sent in exactly one chunk and in feed order; a
\* chunk is sent only after the one before it was answered.
C22_Chunking ==
    LET sent == [k \in DOMAIN eetRequests |-> eetRequests[k].Items]
        RECURSIVE Flat(_)
        Flat(q) == IF q = <<>> THEN <<>> ELSE Head(q) \o Flat(Tail(q))
    IN  (isLoggedIn /\ pc \in {"vendorQuery", "vendorDone"}) =>
            /\ \A k \in DOMAIN sent : Len(sent[k]) \in 1..batchSize
            /\ Len(Flat(sent)) <= Len(EetItems)
            /\ Flat(sent) = SubSeq(EetItems, 1, Len(Flat(sent)))
            /\ Len(eetRequests) = batchNumber
            /\ pc = "vendorDone" => Flat(sent) = EetItems

\* C22 witness: four SKUs were sent with batchSize 3, as a chunk of three and
\* a chunk of one.
C22_Witness ==
    /\ pc = "vendorDone"
    /\ isLoggedIn
    /\ batchSize = 3
    /\ Len(EetItems) = 4
    /\ Len(eetRequests) = 2
    /\ Len(eetRequests[1].Items) = 3
    /\ eetRequests[2].Items = <<EetItems[4]>>

\* ------------------------------------------------------------------- C23
\* C23: the list collected (and returned) is the concatenation, in chunk order,
\* of the responses of the chunks that did not fail, and when the query has
\* returned every chunk was requested, whatever failed before it.
C23_ChunkFailureIsolation ==
    LET failed(k) == eetRequests[k].outcome \in {"status", "throws"}
        answers == [k \in DOMAIN eetRequests |->
                       IF failed(k) THEN <<>> ELSE eetRequests[k].productsArray]
        RECURSIVE Flat(_)
        Flat(q) == IF q = <<>> THEN <<>> ELSE Head(q) \o Flat(Tail(q))
    IN  (isLoggedIn /\ pc \in {"vendorQuery", "vendorDone"}) =>
            /\ allProducts = Flat(answers)
            /\ pc = "vendorDone" => Len(eetRequests) = Len(Batches(EetItems, batchSize))

\* C23 witness: of three chunks the first met a thrown error, the second a
\* non-OK status, the third was answered, and the result is that answer.
C23_Witness ==
    /\ pc = "vendorDone"
    /\ isLoggedIn
    /\ Len(eetRequests) = 3
    /\ eetRequests[1].outcome = "throws"
    /\ eetRequests[2].outcome = "status"
    /\ eetRequests[3].outcome = "array"
    /\ allProducts = eetRequests[3].productsArray
    /\ allProducts # <<>>

\* ------------------------------------------------------------------- C24
\* C24: a run that ends on a setup error - the step from the start (shop domain
\* or access token missing) or from the reading of the feed (file missing) to
\* the exit - ends with exit code 1 and with no mutation sent to the store,
\* and nothing is done after the exit.
C24_SetupErrorsAbort ==
    [][/\ pc # "exit"
       /\ (pc \in {"start", "filter"} /\ pc' = "exit") =>
              (exitCode' = "1" /\ calls' = <<>>)]_vars

\* C24 witness: the store has products and was fetched, the feed has rows that
\* no rule would remove, and the run ended with exit code 1 before filtering
\* and without a mutation.
C24_Witness ==
    /\ pc = "exit"
    /\ exitCode = "1"
    /\ counts.fetches = 1
    /\ shopifyProducts # <<>>
    /\ products # <<>>
    /\ filterConfig = EmptyRule
    /\ filtered = <<>>
    /\ calls = <<>>

\* ------------------------------------------------------------------- C30
\* C30: under the rule loadFilterConfig falls back to, whenever the run is past
\* the filter, the filter's result is the list of parsed records, unchanged and
\* in order, at every stage of the filter.
C30_FallbackRuleKeepsAll ==
    (filterConfig = EmptyRule /\ pc \notin {"start", "fetch", "filter", "exit"}) =>
        /\ afterInclude = products
        /\ afterExclude = products
        /\ filtered = products

\* C30 witness: under the fallback rule the run went on to the mutation
\* phases: a feed of two records went through the filter and a product was
\* created in the store for one of them.
C30_Witness ==
    /\ filterConfig = EmptyRule
    /\ Len(products) = 2
    /\ filtered = products
    /\ \E k \in DOMAIN calls : calls[k].op = "create" /\ calls[k].applied

\* ------------------------------------------------------------------- C25
\* C25: every page request asks for at most 250 nodes and gets no more than it
\* asked for; the first request carries the null cursor and each later one the
\* endCursor of the page before it, and is made only when that page reported
\* hasNextPage = true; when the fetch returns, the last page reported
\* hasNextPage = false and the result is the pages put together in order, which
\* is the whole catalog; and a fetch that was started ends.
C25_PaginatedFetch ==
    LET RECURSIVE Flat(_)
        Flat(q) == IF q = <<>> THEN <<>> ELSE Head(q).products \o Flat(Tail(q))
        n == Len(pageRequests)
    IN  /\ [](pc \in {"pages", "pagesDone", "pagesFailed"} =>
               /\ \A k \in 1..n :
                      /\ pageRequests[k].first <= 250
                      /\ Len(pageRequests[k].products) <= pageRequests[k].first
                      /\ pageRequests[k].after =
                             IF k = 1 THEN 0 ELSE pageRequests[k - 1].endCursor
                      /\ k > 1 => /\ pageRequests[k - 1].hasNextPage
                                  /\ ~pageRequests[k - 1].threw
               /\ pc = "pagesDone" =>
                      /\ n >= 1
                      /\ ~pageRequests[n].hasNextPage
                      /\ allProducts = Flat(pageRequests)
                      /\ allProducts = AllNodes(remote))
        /\ (pc = "pages") ~> (pc \in {"pagesDone", "pagesFailed"})

\* C25 witness: a catalog of three products was fetched in three pages of one
\* node, the second request carrying the cursor of the first node.
C25_Witness ==
    /\ pc = "pagesDone"
    /\ batchSize = 1
    /\ Len(remote) = 3
    /\ Len(pageRequests) = 3
    /\ pageRequests[2].after = 1
    /\ pageRequests[3].after = 2
    /\ allProducts = AllNodes(remote)

C27_FailedRunKeepsSchedule ==
    exitCode = "1" => pc = "waiting"

\* ------------------------------------------------------------------- C28
\* C28: when the run is over, every product for which an inventory adjustment
\* of the live-update phase was carried out holds the quantity main computed
\* from the vendor item of that adjustment - also when the same SKU was
\* processed more than once.
C28_InventoryEndState ==
    pc = "done" =>
        \A c \in InventoryCalls :
            c.applied => remote[c.pid].qty = NewQuantityOf(eetPriceAndStock[c.item])

\* ------------------------------------------------------------------- C29
\* C29: a product the store created in CREATE_PHASE is not in the snapshot of
\* STEP 1, and no request of DRAFT_ORPHANS_PHASE of the same run is addressed
\* to it.
C29_CreatedNeverOrphaned ==
    \A a \in DOMAIN calls :
        (calls[a].phase = "create" /\ calls[a].op = "create" /\ calls[a].applied) =>
            /\ \A n \in DOMAIN shopifyProducts : shopifyProducts[n].id # calls[a].pid
            /\ \A b \in DOMAIN calls :
                   calls[b].phase = "orphans" => calls[b].pid # calls[a].pid

\* C29 witness: in one run a product was created and then the orphan phase
\* set another product, one of the snapshot, to DRAFT.
C29_Witness ==
    \E a, b \in DOMAIN calls :
        /\ calls[a].phase = "create" /\ calls[a].op = "create" /\ calls[a].applied
        /\ calls[b].phase = "orphans" /\ calls[b].status = "DRAFT" /\ calls[b].applied
        /\ a < b
        /\ \E n \in DOMAIN shopifyProducts : shopifyProducts[n].id = calls[b].pid

====
